---- MODULE Spec2Model ----
(***************************************************************************)
(* Model of cea/concept_project/algorithm_planning_lp/                     *)
(* pyomo_multi_linetype.py: main() assembling the pyomo model of the       *)
(* electric grid problem, the constraint rules it attaches, and the        *)
(* assignments those constraints admit.                                    *)
(*                                                                         *)
(* Units.  The source computes in floating point; the model keeps every    *)
(* quantity as an integer count of a fixed unit:                           *)
(*   power (demand, var_power_over_line, var_power_sub)  0.01 p.u.         *)
(*   GRID0_kW of the node table                          1/3 kW            *)
(*   length                                              1 m               *)
(*   x_ohm_per_km of the cable table                     0.001 ohm/km      *)
(*   var_theta                                           0.0001 rad        *)
(*   var_slack[i,j,t]     0.01 p.u. times the reactance of (i,j,t), that   *)
(*                        is the slack term of the flow equation after the *)
(*                        equation is multiplied by length * x_ohm_per_km  *)
(*   om_factor                                           0.01              *)
(*   annuity_factor                                      a fraction num/den*)
(*   var_costs            1/(100 * den) of the currency, den the           *)
(*                        denominator of the annuity factor                *)
(* Inequalities and equalities of the source are cross-multiplied so that  *)
(* no division is rounded.                                                 *)
(***************************************************************************)
EXTENDS Integers, Sequences, FiniteSets, TLC

VARIABLES pc, err,
          df_nodes, dict_length, dict_line_tech, cost_types, INTEREST_RATE, years,
          idx_nodes_sub, idx_nodes_consum, idx_nodes, idx_edge, idx_linetypes,
          dict_power_demand, dict_length_processed, m, sol

vars == <<pc, err, df_nodes, dict_length, dict_line_tech, cost_types, INTEREST_RATE, years,
          idx_nodes_sub, idx_nodes_consum, idx_nodes, idx_edge, idx_linetypes,
          dict_power_demand, dict_length_processed, m, sol>>

(***************************************************************************)
(* Bounds of the model                                                     *)
(***************************************************************************)
\* node ids of the node tables main() is assembled for are drawn from 1..MaxNodes
MaxNodes == 3
\* node tables handed on to the solver have the ids 1..n, n up to MaxSolveNodes
MaxSolveNodes == 4
\* depreciation periods 0..MaxYears
MaxYears == 2
\* var_power_over_line is searched in -MaxFlow..MaxFlow
MaxFlow == 3
\* var_theta is searched in -MaxTheta..MaxTheta
MaxTheta == 5

(***************************************************************************)
(* Configuration of lp_config (imported at line 7)                         *)
(***************************************************************************)
S_BASE == 10
V_BASE == 22

(***************************************************************************)
(* Helpers                                                                 *)
(***************************************************************************)
RECURSIVE Sum(_, _)
\* the sum of f[k] over k in S
Sum(f, S) == IF S = {} THEN 0
             ELSE LET k == CHOOSE k \in S : TRUE IN f[k] + Sum(f, S \ {k})

RECURSIVE SetToSortedSeq(_)
SetToSortedSeq(S) == IF S = {} THEN <<>>
                     ELSE LET x == CHOOSE x \in S : \A y \in S : x <= y
                          IN <<x>> \o SetToSortedSeq(S \ {x})

Range(s) == {s[k] : k \in DOMAIN s}

RECURSIVE Products(_)
Products(cand) ==
    IF DOMAIN cand = {} THEN {<<>>}
    ELSE LET k == CHOOSE k \in DOMAIN cand : TRUE
             rest == Products([j \in (DOMAIN cand) \ {k} |-> cand[j]])
         IN {(k :> v) @@ f : v \in cand[k], f \in rest}

\* all functions f on DOMAIN cand with f[k] \in cand[k]
DepFuncs(cand) ==
    IF \E k \in DOMAIN cand : cand[k] = {} THEN {}
    ELSE LET one == {k \in DOMAIN cand : Cardinality(cand[k]) = 1}
             fixed == [k \in one |-> CHOOSE v \in cand[k] : TRUE]
         IN {fixed @@ f : f \in Products([k \in (DOMAIN cand) \ one |-> cand[k]])}

\* a GRID0_kW cell: NaN, or a number of thirds of a kW
NaN == [nan |-> TRUE, v |-> 0]
Num(v) == [nan |-> FALSE, v |-> v]
isnan(c) == c.nan

NoError == [type |-> "none", at |-> "none"]

(***************************************************************************)
(* annuity_factor                                                          *)
(***************************************************************************)
\* variant: a zero divisor yields the value 0 instead of raising
annuity_factor_silent(n, i) ==
    LET pow == (i.den + i.num) ^ n
        dividend == pow * i.num
        divisor == i.den * (pow - i.den ^ n)
    IN IF divisor = 0
       THEN [raised |-> FALSE, num |-> 0, den |-> 1]
       ELSE [raised |-> FALSE, num |-> dividend, den |-> divisor]

\* a = (1 + i) ** n * i / ((1 + i) ** n - 1) with i = i.num / i.den:
\*   (1+i)**n * i      = (den+num)^n * num / (den^n * den)
\*   (1+i)**n - 1      = ((den+num)^n - den^n) / den^n
\* The division raises ZeroDivisionError when the divisor is 0.
annuity_factor(n, i) ==
    LET pow == (i.den + i.num) ^ n
        dividend == pow * i.num
        divisor == i.den * (pow - i.den ^ n)
    IN IF divisor = 0
       THEN [raised |-> TRUE, num |-> 0, den |-> 1]
       ELSE [raised |-> FALSE, num |-> dividend, den |-> divisor]

(***************************************************************************)
(* Inputs of main()                                                        *)
(***************************************************************************)
\* cable table rows (electric_line_data.csv), indexed 0..T-1
LineType0 == [price_sgd_per_m |-> 1, I_max_A |-> 10, x_ohm_per_km |-> 100,
              r_ohm_per_km |-> 200, om_factor |-> 5]
LineType1 == [price_sgd_per_m |-> 2, I_max_A |-> 14, x_ohm_per_km |-> 100,
              r_ohm_per_km |-> 100, om_factor |-> 8]
Catalogs == {(0 :> LineType0), (0 :> LineType0) @@ (1 :> LineType1)}

\* street lengths between the nodes: the nodes lie on one street, 100 m apart
LineLayout(ids) == [i \in ids |-> [j \in ids \ {i} |->
                        IF i < j THEN 100 * (j - i) ELSE 100 * (i - j)]]

InterestRates == {[num |-> 0, den |-> 1], [num |-> 1, den |-> 2]}

AllCostTypes == <<"investment", "om", "losses">>
\* the non-empty sublists of ['investment', 'om', 'losses']
CostTypeLists == {SelectSeq(AllCostTypes, LAMBDA c : c \in S) :
                      S \in (SUBSET Range(AllCostTypes)) \ {{}}}

NodeRows(kws) == [Type : {"PLANT", "CONSUMER"}, GRID0_kW : kws]
NodeTables == UNION {[ids -> NodeRows({NaN, Num(100)})] :
                        ids \in {S \in SUBSET (1..MaxNodes) : Cardinality(S) >= 2}}

NoModel == [set_nodes |-> {}, set_nodes_sub |-> {}, set_nodes_consum |-> {},
            set_edge |-> {}, set_linetypes |-> {}, set_cost_type |-> {},
            dict_length |-> <<>>, dict_line_tech |-> <<>>, dict_power_demand |-> <<>>,
            var_x |-> {}, var_theta |-> {}, var_power_sub |-> {},
            var_power_over_line |-> {}, var_slack |-> {}, var_costs |-> {},
            power_balance_rule_constraint |-> {}, power_over_line_constraint |-> {},
            slack_voltage_angle_constraint |-> {}, slack_neg_constraint |-> {},
            slack_pos_constraint |-> {}, power_over_line_rule_neg_constraint |-> {},
            power_over_line_rule_pos_constraint |-> {}, radial_constraint |-> {},
            one_linetype |-> {}, def_costs |-> {}, obj |-> {}]

NoSolution == [var_x |-> <<>>, var_power_over_line |-> <<>>, var_power_sub |-> <<>>,
               var_theta |-> <<>>, var_slack |-> <<>>, var_costs |-> <<>>]

InitWith(table, catalog, costs, rate, n) ==
    /\ pc = "line_parameters"
    /\ err = NoError
    /\ df_nodes = table
    /\ dict_length = LineLayout(DOMAIN table)
    /\ dict_line_tech = catalog
    /\ cost_types = costs
    /\ INTEREST_RATE = rate
    /\ years = n
    /\ idx_nodes_sub = <<>>
    /\ idx_nodes_consum = <<>>
    /\ idx_nodes = <<>>
    /\ idx_edge = <<>>
    /\ idx_linetypes = <<>>
    /\ dict_power_demand = <<>>
    /\ dict_length_processed = <<>>
    /\ m = NoModel
    /\ sol = NoSolution

Init == \E table \in NodeTables, catalog \in Catalogs, costs \in CostTypeLists,
           rate \in InterestRates, n \in 0..MaxYears :
            InitWith(table, catalog, costs, rate, n)

(***************************************************************************)
(* main(), lines 345-351: line parameters and annuity factor               *)
(***************************************************************************)
\* main() passes 40 years; the model passes `years' (40 overflows (1+i)^n here)
LineParameters ==
    /\ pc = "line_parameters"
    /\ LET a == annuity_factor(years, INTEREST_RATE)
       IN IF a.raised
          THEN /\ pc' = "raised"
               /\ err' = [type |-> "ZeroDivisionError", at |-> "annuity_factor"]
               /\ UNCHANGED dict_line_tech
          ELSE /\ pc' = "index_data"
               /\ dict_line_tech' =
                    [idx_line \in DOMAIN dict_line_tech |->
                        [price_sgd_per_m |-> dict_line_tech[idx_line].price_sgd_per_m,
                         I_max_A |-> dict_line_tech[idx_line].I_max_A,
                         x_ohm_per_km |-> dict_line_tech[idx_line].x_ohm_per_km,
                         r_ohm_per_km |-> dict_line_tech[idx_line].r_ohm_per_km,
                         om_factor |-> dict_line_tech[idx_line].om_factor,
                         annuity_factor |-> [num |-> a.num, den |-> a.den]]]
               /\ UNCHANGED err
    /\ UNCHANGED <<df_nodes, dict_length, cost_types, INTEREST_RATE, years,
                   idx_nodes_sub, idx_nodes_consum, idx_nodes, idx_edge, idx_linetypes,
                   dict_power_demand, dict_length_processed, m, sol>>

(***************************************************************************)
(* main(), lines 364-375: index data                                       *)
(***************************************************************************)
\* the rows of df_nodes of one Type, in table order (ascending id)
IndexOfType(table, type) ==
    SetToSortedSeq({i \in DOMAIN table : table[i].Type = type})

\* variant: both orders of a pair are kept
EdgeCondition_both(i, j) == i /= j

\* line 372
EdgeCondition(i, j) == i /= j /\ i < j

RECURSIVE InnerEdgeLoop(_, _, _)
InnerEdgeLoop(i, nodes, k) ==
    IF k > Len(nodes) THEN <<>>
    ELSE (IF EdgeCondition(i, nodes[k]) THEN << <<i, nodes[k]>> >> ELSE <<>>)
         \o InnerEdgeLoop(i, nodes, k + 1)

RECURSIVE OuterEdgeLoop(_, _)
OuterEdgeLoop(nodes, k) ==
    IF k > Len(nodes) THEN <<>>
    ELSE InnerEdgeLoop(nodes[k], nodes, 1) \o OuterEdgeLoop(nodes, k + 1)

IndexData ==
    /\ pc = "index_data"
    /\ pc' = "preprocess_data"
    /\ idx_nodes_sub' = IndexOfType(df_nodes, "PLANT")
    /\ idx_nodes_consum' = IndexOfType(df_nodes, "CONSUMER")
    /\ idx_nodes' = idx_nodes_sub' \o idx_nodes_consum'
    /\ idx_edge' = OuterEdgeLoop(idx_nodes', 1)
    /\ idx_linetypes' = [k \in 1..Cardinality(DOMAIN dict_line_tech) |-> k - 1]
    /\ UNCHANGED <<err, df_nodes, dict_length, dict_line_tech, cost_types, INTEREST_RATE,
                   years, dict_power_demand, dict_length_processed, m, sol>>

(***************************************************************************)
(* main(), lines 381-390: preprocess data                                  *)
(***************************************************************************)
\* 3.0 * (kW * 10**3) / (S_BASE * 10**6), kW = thirds / 3, in hundredths of a p.u.
PerUnitDemand(thirds) == (3 * (thirds * 10^3) * 10^2) \div (3 * S_BASE * 10^6)

PowerDemandDict(table) ==
    [idx_node \in {i \in DOMAIN table : ~isnan(table[i].GRID0_kW)} |->
        PerUnitDemand(table[idx_node].GRID0_kW.v)]

LengthDict(lengths) ==
    [p \in {<<i, j>> : i \in DOMAIN lengths, j \in DOMAIN lengths} \
           {<<i, i>> : i \in DOMAIN lengths} |-> lengths[p[1]][p[2]]]

PreprocessData ==
    /\ pc = "preprocess_data"
    /\ pc' = "create_model"
    /\ dict_power_demand' = PowerDemandDict(df_nodes)
    /\ dict_length_processed' = LengthDict(dict_length)
    /\ UNCHANGED <<err, df_nodes, dict_length, dict_line_tech, cost_types, INTEREST_RATE,
                   years, idx_nodes_sub, idx_nodes_consum, idx_nodes, idx_edge,
                   idx_linetypes, m, sol>>

(***************************************************************************)
(* main(), lines 396-418: sets, parameters and variables                   *)
(***************************************************************************)
\* the index set of a component declared over (m.set_edge, m.set_linetypes)
EdgeTypeIndex(edges, linetypes) == {<<e[1], e[2], t>> : e \in edges, t \in linetypes}

CreateModel ==
    /\ pc = "create_model"
    /\ pc' = "declare_constraints"
    /\ m' = [NoModel EXCEPT
                !.set_nodes = Range(idx_nodes),
                !.set_nodes_sub = Range(idx_nodes_sub),
                !.set_nodes_consum = Range(idx_nodes_consum),
                !.set_edge = Range(idx_edge),
                !.set_linetypes = Range(idx_linetypes),
                !.set_cost_type = Range(cost_types),
                !.dict_length = dict_length_processed,
                !.dict_line_tech = dict_line_tech,
                !.dict_power_demand = dict_power_demand,
                !.var_x = EdgeTypeIndex(Range(idx_edge), Range(idx_linetypes)),
                !.var_theta = Range(idx_nodes),
                !.var_power_sub = Range(idx_nodes_sub),
                !.var_power_over_line = EdgeTypeIndex(Range(idx_edge), Range(idx_linetypes)),
                !.var_slack = EdgeTypeIndex(Range(idx_edge), Range(idx_linetypes)),
                !.var_costs = Range(cost_types)]
    /\ UNCHANGED <<err, df_nodes, dict_length, dict_line_tech, cost_types, INTEREST_RATE,
                   years, idx_nodes_sub, idx_nodes_consum, idx_nodes, idx_edge,
                   idx_linetypes, dict_power_demand, dict_length_processed, sol>>

(***************************************************************************)
(* The constraint rules, as predicates on a model mm and an assignment s   *)
(***************************************************************************)
\* variant: the demand of the node is not read, every node draws 0
p_node_out_idle(mm, i) ==
    IF i \in DOMAIN mm.dict_power_demand
    THEN [raised |-> FALSE, value |-> 0]
    ELSE [raised |-> TRUE, value |-> 0]

\* line 140: float(m.dict_power_demand[i]) raises KeyError for a node without an entry
p_node_out(mm, i) ==
    IF i \in DOMAIN mm.dict_power_demand
    THEN [raised |-> FALSE, value |-> mm.dict_power_demand[i]]
    ELSE [raised |-> TRUE, value |-> 0]

\* lines 141-154
p_node_in(mm, s, i) ==
    (IF i \in mm.set_nodes_sub THEN s.var_power_sub[i] ELSE 0)
    + Sum(s.var_power_over_line,
          {<<i, j, t>> : j \in {n \in mm.set_nodes : i /= n /\ i < n}, t \in mm.set_linetypes})
    - Sum(s.var_power_over_line,
          {<<j, i, t>> : j \in {n \in mm.set_nodes : i /= n /\ i > n}, t \in mm.set_linetypes})

power_balance_rule(mm, s, i) ==
    /\ ~p_node_out(mm, i).raised
    /\ p_node_out(mm, i).value = p_node_in(mm, s, i)

\* length[i,j] * x_ohm_per_km[t], in m * 0.001 ohm/km
Reactance(mm, k) == mm.dict_length[<<k[1], k[2]>>] * mm.dict_line_tech[k[3]].x_ohm_per_km

\* var_power_over_line == (theta[i] - theta[j]) * pi/180 / (length * x / 1000) + var_slack,
\* multiplied by 100 * length * x
power_over_line_rule(mm, s, k) ==
    s.var_power_over_line[k] * Reactance(mm, k)
        = (s.var_theta[k[1]] - s.var_theta[k[2]] + s.var_slack[k]) * 10^4

slack_voltage_angle_rule(mm, s, i) == s.var_theta[i] = 0

\* var_slack <= (1 - var_x) * 1000000, multiplied by the reactance
slack_pos_rule(mm, s, k) ==
    s.var_slack[k] <= (1 - s.var_x[k]) * (1000000 \div 10^2) * Reactance(mm, k)

slack_neg_rule(mm, s, k) ==
    s.var_slack[k] >= (-1) * (1 - s.var_x[k]) * (1000000 \div 10^2) * Reactance(mm, k)

\* var_power_over_line <= var_x * (I_max_A * V_BASE * 10**3) / (S_BASE * 10**6),
\* multiplied by 100 * S_BASE * 10**6
power_over_line_rule_pos_rule(mm, s, k) ==
    s.var_power_over_line[k] * (S_BASE * 10^6)
        <= s.var_x[k] * (mm.dict_line_tech[k[3]].I_max_A * V_BASE * 10^3) * 10^2

\* variant: the lower limit is not switched by var_x
power_over_line_rule_neg_rule_unswitched(mm, s, k) ==
    s.var_power_over_line[k] * (S_BASE * 10^6)
        >= (-1) * (mm.dict_line_tech[k[3]].I_max_A * V_BASE * 10^3) * 10^2

power_over_line_rule_neg_rule(mm, s, k) ==
    s.var_power_over_line[k] * (S_BASE * 10^6)
        >= (-1) * s.var_x[k] * (mm.dict_line_tech[k[3]].I_max_A * V_BASE * 10^3) * 10^2

\* variant: the count of lines equals the number of nodes
radial_rule_nodes(mm, s) ==
    Sum(s.var_x, mm.var_x) = Cardinality(mm.set_nodes)

radial_rule(mm, s) ==
    Sum(s.var_x, mm.var_x) = Cardinality(mm.set_nodes) - Cardinality(mm.set_nodes_sub)

one_linetype_rule(mm, s, i, j) ==
    Sum(s.var_x, {<<i, j, t>> : t \in mm.set_linetypes}) <= 1

(***************************************************************************)
(* main(), lines 420-431: the constraints                                  *)
(***************************************************************************)
\* variant: the power balance is declared over the consumers only
ConstraintIndexSets_consum(mm) ==
    [power_balance_rule_constraint |-> mm.set_nodes_consum,
     power_over_line_constraint |-> EdgeTypeIndex(mm.set_edge, mm.set_linetypes),
     slack_voltage_angle_constraint |-> mm.set_nodes_sub,
     slack_neg_constraint |-> EdgeTypeIndex(mm.set_edge, mm.set_linetypes),
     slack_pos_constraint |-> EdgeTypeIndex(mm.set_edge, mm.set_linetypes),
     power_over_line_rule_neg_constraint |-> EdgeTypeIndex(mm.set_edge, mm.set_linetypes),
     power_over_line_rule_pos_constraint |-> EdgeTypeIndex(mm.set_edge, mm.set_linetypes),
     radial_constraint |-> {<<>>},
     one_linetype |-> mm.set_edge]

\* the index set each Constraint(...) is declared over
ConstraintIndexSets(mm) ==
    [power_balance_rule_constraint |-> mm.set_nodes,
     power_over_line_constraint |-> EdgeTypeIndex(mm.set_edge, mm.set_linetypes),
     slack_voltage_angle_constraint |-> mm.set_nodes_sub,
     slack_neg_constraint |-> EdgeTypeIndex(mm.set_edge, mm.set_linetypes),
     slack_pos_constraint |-> EdgeTypeIndex(mm.set_edge, mm.set_linetypes),
     power_over_line_rule_neg_constraint |-> EdgeTypeIndex(mm.set_edge, mm.set_linetypes),
     power_over_line_rule_pos_constraint |-> EdgeTypeIndex(mm.set_edge, mm.set_linetypes),
     radial_constraint |-> {<<>>},
     one_linetype |-> mm.set_edge]

DeclareConstraints ==
    /\ pc = "declare_constraints"
    /\ LET ix == ConstraintIndexSets(m)
       IN IF \E i \in ix.power_balance_rule_constraint : p_node_out(m, i).raised
          THEN /\ pc' = "raised"
               /\ err' = [type |-> "KeyError", at |-> "power_balance_rule"]
               /\ UNCHANGED m
          ELSE /\ pc' = "declare_objective"
               /\ m' = [m EXCEPT
                    !.power_balance_rule_constraint = ix.power_balance_rule_constraint,
                    !.power_over_line_constraint = ix.power_over_line_constraint,
                    !.slack_voltage_angle_constraint = ix.slack_voltage_angle_constraint,
                    !.slack_neg_constraint = ix.slack_neg_constraint,
                    !.slack_pos_constraint = ix.slack_pos_constraint,
                    !.power_over_line_rule_neg_constraint = ix.power_over_line_rule_neg_constraint,
                    !.power_over_line_rule_pos_constraint = ix.power_over_line_rule_pos_constraint,
                    !.radial_constraint = ix.radial_constraint,
                    !.one_linetype = ix.one_linetype]
               /\ UNCHANGED err
    /\ UNCHANGED <<df_nodes, dict_length, dict_line_tech, cost_types, INTEREST_RATE,
                   years, idx_nodes_sub, idx_nodes_consum, idx_nodes, idx_edge,
                   idx_linetypes, dict_power_demand, dict_length_processed, sol>>

(***************************************************************************)
(* cost_rule, obj_rule and main(), lines 433-443                           *)
(***************************************************************************)
\* the entries of m.var_costs that cost_rule(m, cost_type) reads
CostVarsReferenced(cost_type) ==
    CASE cost_type = "investment" -> {"investment"}
      [] cost_type = "om" -> {"om", "investment"}
      [] cost_type = "losses" -> {"losses"}

\* variant: 'om' weighs every line with the om_factor of its own type (the sum the
\* source keeps commented out at lines 86-91)
cost_rule_om_per_type(mm, s, cost_type) ==
    CASE cost_type = "investment" ->
            Sum([k \in mm.var_x |->
                    2 * (s.var_x[k] * mm.dict_length[<<k[1], k[2]>>])
                      * mm.dict_line_tech[k[3]].price_sgd_per_m
                      * mm.dict_line_tech[k[3]].annuity_factor.num * 10^2],
                mm.var_x)
      [] cost_type = "om" ->
            Sum([k \in mm.var_x |->
                    2 * (s.var_x[k] * mm.dict_length[<<k[1], k[2]>>])
                      * mm.dict_line_tech[k[3]].price_sgd_per_m
                      * mm.dict_line_tech[k[3]].annuity_factor.num
                      * mm.dict_line_tech[k[3]].om_factor],
                mm.var_x)

\* the right-hand side of the equality cost_rule returns.  The 'losses' branch is
\* left out: main() keeps 'losses' disabled (line 357) in every model that is solved.
cost_rule(mm, s, cost_type) ==
    CASE cost_type = "investment" ->
            Sum([k \in mm.var_x |->
                    2 * (s.var_x[k] * mm.dict_length[<<k[1], k[2]>>])
                      * mm.dict_line_tech[k[3]].price_sgd_per_m
                      * mm.dict_line_tech[k[3]].annuity_factor.num * 10^2],
                mm.var_x)
      [] cost_type = "om" ->
            (s.var_costs["investment"] * mm.dict_line_tech[0].om_factor) \div 10^2

obj_rule(mm, s) == Sum(s.var_costs, mm.set_cost_type)

DeclareObjective ==
    /\ pc = "declare_objective"
    /\ IF \E c \in m.set_cost_type : ~(CostVarsReferenced(c) \subseteq m.var_costs)
       THEN /\ pc' = "raised"
            /\ err' = [type |-> "KeyError", at |-> "cost_rule"]
            /\ UNCHANGED m
       ELSE /\ pc' = "done"
            /\ m' = [m EXCEPT !.def_costs = m.set_cost_type, !.obj = m.set_cost_type]
            /\ UNCHANGED err
    /\ UNCHANGED <<df_nodes, dict_length, dict_line_tech, cost_types, INTEREST_RATE,
                   years, idx_nodes_sub, idx_nodes_consum, idx_nodes, idx_edge,
                   idx_linetypes, dict_power_demand, dict_length_processed, sol>>

MainNext == \/ LineParameters
            \/ IndexData
            \/ PreprocessData
            \/ CreateModel
            \/ DeclareConstraints
            \/ DeclareObjective

Spec == Init /\ [][MainNext]_vars

(***************************************************************************)
(* The solver: main() returns m (line 443) and the solver assigns every    *)
(* variable of m a value of its declared domain such that every constraint *)
(* of m holds.  The assignment is found family by family.                  *)
(***************************************************************************)
\* var_costs under def_costs: 'investment' from var_x, then 'om' from 'investment'
CostsOf(mm, s) ==
    LET inv == [c \in mm.def_costs \cap {"investment"} |-> cost_rule(mm, s, c)]
        s1 == [s EXCEPT !.var_costs = inv]
    IN [c \in mm.def_costs |-> IF c = "investment" THEN inv[c] ELSE cost_rule(mm, s1, c)]

\* var_x (Binary) under radial_constraint and one_linetype
XChoices(mm) ==
    {x \in [mm.var_x -> {0, 1}] :
        LET s == [NoSolution EXCEPT !.var_x = x]
        IN /\ radial_rule(mm, s)
           /\ \A e \in mm.one_linetype : one_linetype_rule(mm, s, e[1], e[2])}

SolveX ==
    /\ pc = "done"
    /\ \E x \in XChoices(m) :
            sol' = [sol EXCEPT !.var_x = x,
                               !.var_costs = CostsOf(m, [sol EXCEPT !.var_x = x])]
    /\ pc' = "x_assigned"
    /\ UNCHANGED <<err, df_nodes, dict_length, dict_line_tech, cost_types, INTEREST_RATE,
                   years, idx_nodes_sub, idx_nodes_consum, idx_nodes, idx_edge,
                   idx_linetypes, dict_power_demand, dict_length_processed, m>>

\* var_power_over_line (Reals) under the two capacity constraints
FlowCandidates(mm, s) ==
    [k \in mm.var_power_over_line |->
        {p \in (-MaxFlow)..MaxFlow :
            LET s1 == [s EXCEPT !.var_power_over_line = (k :> p)]
            IN /\ power_over_line_rule_pos_rule(mm, s1, k)
               /\ power_over_line_rule_neg_rule(mm, s1, k)}]

\* var_power_sub (NonNegativeReals) under the power balance of its substation
InjectionCandidates(mm, s) ==
    [i \in mm.var_power_sub |->
        {p \in 0..(2 * MaxFlow) :
            power_balance_rule(mm, [s EXCEPT !.var_power_sub = (i :> p)], i)}]

RECURSIVE FlowExtensions(_, _, _, _, _)
\* the flows of the lines at the nodes in `todo' added to the partial assignments
\* `part', node by node (consumers first, the one with the fewest lines left open
\* by `cand' first), keeping those that balance every consumer whose lines all have
\* a flow
FlowExtensions(mm, s, cand, part, todo) ==
    IF todo = {} THEN part
    ELSE LET open(n) == Cardinality({k \in DOMAIN cand :
                                    /\ Cardinality(cand[k]) > 1
                                    /\ \/ (k[1] = n /\ k[2] \in todo)
                                       \/ (k[2] = n /\ k[1] \in todo)})
             consum == todo \ mm.var_power_sub
             i == IF consum = {} THEN CHOOSE n \in todo : TRUE
                  ELSE CHOOSE n \in consum : \A o \in consum : open(n) <= open(o)
             keys == {k \in DOMAIN cand : \/ (k[1] = i /\ k[2] \in todo)
                                          \/ (k[2] = i /\ k[1] \in todo)}
             ext == {f @@ g : f \in part, g \in DepFuncs([k \in keys |-> cand[k]])}
             ok == IF i \in mm.var_power_sub THEN ext
                   ELSE {f \in ext :
                          power_balance_rule(mm, [s EXCEPT !.var_power_over_line = f], i)}
         IN FlowExtensions(mm, s, cand, ok, todo \ {i})

\* <<var_power_over_line, var_power_sub>> under the capacity and power balance constraints
FlowChoices(mm, s) ==
    LET flows == FlowExtensions(mm, s, FlowCandidates(mm, s), {<<>>},
                                mm.power_balance_rule_constraint)
    IN UNION {{<<f, p>> : p \in DepFuncs(InjectionCandidates(mm,
                                    [s EXCEPT !.var_power_over_line = f]))} : f \in flows}

SolveFlow ==
    /\ pc = "x_assigned"
    /\ \E fp \in FlowChoices(m, sol) :
            sol' = [sol EXCEPT !.var_power_over_line = fp[1], !.var_power_sub = fp[2]]
    /\ pc' = "flow_assigned"
    /\ UNCHANGED <<err, df_nodes, dict_length, dict_line_tech, cost_types, INTEREST_RATE,
                   years, idx_nodes_sub, idx_nodes_consum, idx_nodes, idx_edge,
                   idx_linetypes, dict_power_demand, dict_length_processed, m>>

\* line 414: bounds=(-30.0, 30.0) degrees = 0.5235 rad
ThetaBound == 5235

\* var_theta within its bounds, 0 at a substation
ThetaCandidates(mm, i) ==
    {th \in (-MaxTheta)..MaxTheta :
        /\ -ThetaBound <= th /\ th <= ThetaBound
        /\ i \in mm.slack_voltage_angle_constraint
                => slack_voltage_angle_rule(mm, [NoSolution EXCEPT !.var_theta = (i :> th)], i)}

\* the value power_over_line_rule leaves to var_slack[k]
SlackOf(mm, s, th, k) ==
    (s.var_power_over_line[k] * Reactance(mm, k)) \div 10^4 - (th[k[1]] - th[k[2]])

\* var_slack[k] (Reals) satisfies the flow equation and both slack bounds
SlackAdmitted(mm, s, th, k) ==
    LET s1 == [s EXCEPT !.var_theta = th, !.var_slack = (k :> SlackOf(mm, s, th, k))]
    IN /\ power_over_line_rule(mm, s1, k)
       /\ slack_pos_rule(mm, s1, k)
       /\ slack_neg_rule(mm, s1, k)

\* the node whose angle is assigned next: a substation, else a node with a built
\* line to a node that has its angle, else any node
NextNode(mm, s, have, todo) ==
    LET pinned == todo \cap mm.slack_voltage_angle_constraint
        linked == {i \in todo : \E k \in mm.var_x :
                        /\ s.var_x[k] = 1
                        /\ \/ (k[1] = i /\ k[2] \in have)
                           \/ (k[2] = i /\ k[1] \in have)}
    IN IF pinned /= {} THEN CHOOSE i \in pinned : TRUE
       ELSE IF linked /= {} THEN CHOOSE i \in linked : TRUE
       ELSE CHOOSE i \in todo : TRUE

RECURSIVE ThetaExtensions(_, _, _, _)
\* the angles of the nodes in `todo' added to the partial assignments `part', keeping
\* those for which every flow equation between two assigned nodes has a slack
ThetaExtensions(mm, s, part, todo) ==
    IF todo = {} THEN part
    ELSE LET i == NextNode(mm, s, mm.var_theta \ todo, todo)
             ext == {(i :> v) @@ th : v \in ThetaCandidates(mm, i), th \in part}
             at == {k \in mm.power_over_line_constraint :
                        \/ (k[1] = i /\ k[2] \notin todo)
                        \/ (k[2] = i /\ k[1] \notin todo)}
             built == {k \in at : s.var_x[k] = 1}
             ok == {th \in ext :
                      /\ \A k \in built : SlackAdmitted(mm, s, th, k)
                      /\ \A k \in at \ built : SlackAdmitted(mm, s, th, k)}
         IN ThetaExtensions(mm, s, ok, todo \ {i})

ThetaChoices(mm, s) == ThetaExtensions(mm, s, {<<>>}, mm.var_theta)

SolveTheta ==
    /\ pc = "flow_assigned"
    /\ \E th \in ThetaChoices(m, sol) :
            sol' = [sol EXCEPT !.var_theta = th,
                               !.var_slack = [k \in m.var_slack |-> SlackOf(m, sol, th, k)]]
    /\ pc' = "solved"
    /\ UNCHANGED <<err, df_nodes, dict_length, dict_line_tech, cost_types, INTEREST_RATE,
                   years, idx_nodes_sub, idx_nodes_consum, idx_nodes, idx_edge,
                   idx_linetypes, dict_power_demand, dict_length_processed, m>>

SolveNext == \/ SolveX
             \/ SolveFlow
             \/ SolveTheta

\* node tables with the ids 1..n: at least one PLANT (demand 0), consumers with
\* demand 0 or 0.01 p.u.; in the largest tables all consumers have the same demand
SolveTables(n) ==
    {t \in [1..n -> NodeRows({Num(0), Num(100)})] :
        /\ \E i \in 1..n : t[i].Type = "PLANT"
        /\ \A i \in 1..n : t[i].Type = "PLANT" => t[i].GRID0_kW = Num(0)
        /\ n = MaxSolveNodes
              => \A i, j \in 1..n : (t[i].Type = "CONSUMER" /\ t[j].Type = "CONSUMER")
                                        => t[i].GRID0_kW = t[j].GRID0_kW}

\* the largest tables come with one cable type, the smaller ones with one or two
SolveCatalogs(n) == IF n < MaxSolveNodes THEN Catalogs ELSE {(0 :> LineType0)}

SolveInit == \E n \in 3..MaxSolveNodes : \E table \in SolveTables(n), catalog \in SolveCatalogs(n) :
                InitWith(table, catalog, <<"investment", "om">>, [num |-> 1, den |-> 2], 1)

SpecSolve == SolveInit /\ [][MainNext \/ SolveNext]_vars

(***************************************************************************)
(* The network an assignment builds                                        *)
(***************************************************************************)
\* the edges (i,j) with sum over t of x[i,j,t] = 1
BuiltEdges(mm, x) ==
    {e \in mm.set_edge : Sum(x, {<<e[1], e[2], t>> : t \in mm.set_linetypes}) = 1}

RECURSIVE Reach(_, _)
\* the nodes joined to a node of `seen' by a path of `edges'
Reach(edges, seen) ==
    LET more == seen \cup {e[2] : e \in {d \in edges : d[1] \in seen}}
                     \cup {e[1] : e \in {d \in edges : d[2] \in seen}}
    IN IF more = seen THEN seen ELSE Reach(edges, more)

Components(nodes, edges) == {Reach(edges, {i}) : i \in nodes}

\* an undirected graph has a cycle iff it has more edges than nodes minus components
HasCycle(nodes, edges) ==
    Cardinality(edges) > Cardinality(nodes) - Cardinality(Components(nodes, edges))

\* x, flows and injections are assigned: power balance, capacity, exclusivity and the
\* radiality count hold
FlowsAssigned == pc \in {"flow_assigned", "solved"}
AnglesAssigned == pc = "solved"

NodeCount == Cardinality(DOMAIN df_nodes)
SubCount == Cardinality({i \in DOMAIN df_nodes : df_nodes[i].Type = "PLANT"})
Consumers == {i \in DOMAIN df_nodes : df_nodes[i].Type = "CONSUMER"}
Substations == {i \in DOMAIN df_nodes : df_nodes[i].Type = "PLANT"}

(***************************************************************************)
(* C1                                                                      *)
(***************************************************************************)
NaNConsumerOnly ==
    /\ \E i \in Consumers : isnan(df_nodes[i].GRID0_kW)
    /\ \A i \in Substations : ~isnan(df_nodes[i].GRID0_kW)

\* C1: with a consumer of NaN demand in the node table (and nothing else wrong with the
\* inputs), main() does not raise: the node is left out of dict_power_demand and every
\* node of set_nodes gets a power balance constraint with a defined right-hand side.
C1_NaNConsumerAssembles ==
    (NaNConsumerOnly /\ pc \in {"declare_objective", "done", "raised"}
                     /\ err.at \notin {"annuity_factor", "cost_rule"})
        => /\ pc /= "raised"
           /\ \A i \in Consumers : isnan(df_nodes[i].GRID0_kW) => i \notin DOMAIN dict_power_demand
           /\ m.power_balance_rule_constraint = m.set_nodes
           /\ \A i \in m.set_nodes : ~p_node_out(m, i).raised

(***************************************************************************)
(* C5                                                                      *)
(***************************************************************************)
\* C5: the edge index main() builds holds, for every unordered pair of distinct nodes,
\* the ordered pair (i,j) with i < j exactly once and nothing else: C(n,2) pairs.
C5_EdgeIndexIsUpperTriangle ==
    pc \in {"preprocess_data", "create_model", "declare_constraints",
            "declare_objective", "done"}
        => /\ Len(idx_edge) * 2 = NodeCount * (NodeCount - 1)
           /\ \A a, b \in DOMAIN idx_edge : idx_edge[a] = idx_edge[b] => a = b
           /\ \A i, j \in DOMAIN df_nodes :
                 /\ i < j => <<i, j>> \in Range(idx_edge)
                 /\ i >= j => <<i, j>> \notin Range(idx_edge)
           /\ pc \in {"declare_constraints", "declare_objective", "done"}
                 => /\ m.set_edge = Range(idx_edge)
                    /\ Cardinality(m.set_edge) * 2 = NodeCount * (NodeCount - 1)
                    /\ Cardinality(m.var_x) * 2
                          = NodeCount * (NodeCount - 1) * Cardinality(DOMAIN dict_line_tech)

\* three nodes, a substation whose id is above a consumer's
C5_Witness ==
    /\ pc = "done"
    /\ NodeCount = 3
    /\ \E i \in Substations, j \in Consumers : j < i
    /\ Len(idx_edge) = 3

(***************************************************************************)
(* C6                                                                      *)
(***************************************************************************)
\* C6: the assembled model has one power balance constraint per node, and the flow
\* equation, both slack bounds and both capacity bounds have one instance per (i,j,t),
\* |edges| * |cable types| each.
C6_ConstraintCounts ==
    pc \in {"declare_objective", "done"}
        => LET ijt == {<<e[1], e[2], t>> : e \in m.set_edge, t \in m.set_linetypes}
               count == Cardinality(m.set_edge) * Cardinality(m.set_linetypes)
           IN /\ m.power_balance_rule_constraint = DOMAIN df_nodes
              /\ Cardinality(m.power_balance_rule_constraint) = NodeCount
              /\ \A family \in {m.power_over_line_constraint, m.slack_neg_constraint,
                                m.slack_pos_constraint,
                                m.power_over_line_rule_neg_constraint,
                                m.power_over_line_rule_pos_constraint} :
                    family = ijt /\ Cardinality(family) = count

C6_Witness ==
    /\ pc = "done"
    /\ NodeCount = 3
    /\ Cardinality(m.set_linetypes) = 2
    /\ Cardinality(m.slack_pos_constraint) = 6
    /\ Cardinality(m.power_balance_rule_constraint) = 3

(***************************************************************************)
(* C7                                                                      *)
(***************************************************************************)
\* C7: annuity_factor(n, i) with i = 0 or n = 0 raises; main() then ends with the
\* error and no cable type gets an annuity_factor.
C7_AnnuityZeroRaises ==
    /\ \A n \in 0..MaxYears, i \in InterestRates :
          (n = 0 \/ i.num = 0) => annuity_factor(n, i).raised
    /\ ((years = 0 \/ INTEREST_RATE.num = 0) /\ pc /= "line_parameters")
          => /\ pc = "raised"
             /\ err = [type |-> "ZeroDivisionError", at |-> "annuity_factor"]
             /\ \A t \in DOMAIN dict_line_tech :
                    "annuity_factor" \notin DOMAIN dict_line_tech[t]

\* a period of 0 years at a positive interest rate
C7_Witness ==
    /\ pc = "raised"
    /\ years = 0
    /\ INTEREST_RATE.num > 0
    /\ err.at = "annuity_factor"

(***************************************************************************)
(* C10                                                                     *)
(***************************************************************************)
\* C10: for every non-empty list of cost types, cost_rule reads only declared entries
\* of var_costs, so the cost constraints are generated and the objective sums the
\* enabled cost types.
C10_CostVarsDeclared ==
    /\ (pc = "raised" => err.at /= "cost_rule")
    /\ (pc = "done"
          => /\ \A c \in m.set_cost_type : CostVarsReferenced(c) \subseteq m.var_costs
             /\ m.def_costs = Range(cost_types)
             /\ m.obj = Range(cost_types))

(***************************************************************************)
(* C2                                                                      *)
(***************************************************************************)
\* one substation (1) and two consumers (2, 3) of 0.01 p.u. each on a line: lengths
\* 100 m (1,2), 100 m (2,3), 200 m (1,3); one cable type
C2_Instance ==
    /\ df_nodes = <<[Type |-> "PLANT", GRID0_kW |-> Num(0)],
                    [Type |-> "CONSUMER", GRID0_kW |-> Num(100)],
                    [Type |-> "CONSUMER", GRID0_kW |-> Num(100)]>>
    /\ DOMAIN dict_line_tech = {0}

\* the objective values of the assignments that satisfy every constraint of mm
FeasibleObjectives(mm) ==
    {obj_rule(mm, [NoSolution EXCEPT !.var_costs =
                        CostsOf(mm, [NoSolution EXCEPT !.var_x = x])]) :
        x \in {y \in XChoices(mm) :
                \E fp \in FlowChoices(mm, [NoSolution EXCEPT !.var_x = y]) :
                    ThetaChoices(mm, [NoSolution EXCEPT !.var_x = y,
                                                        !.var_power_over_line = fp[1],
                                                        !.var_power_sub = fp[2]]) /= {}}}

CostMinimal == \A c \in FeasibleObjectives(m) : obj_rule(m, sol) <= c

\* C2: on this instance every cost-minimal assignment builds exactly (1,2) and (2,3)
\* and carries +0.02 p.u. on (1,2) and +0.01 p.u. on (2,3).
C2_LineScenarioFlows ==
    (pc = "solved" /\ C2_Instance /\ CostMinimal)
        => /\ BuiltEdges(m, sol.var_x) = {<<1, 2>>, <<2, 3>>}
           /\ sol.var_power_over_line[<<1, 2, 0>>] = 2
           /\ sol.var_power_over_line[<<2, 3, 0>>] = 1

(***************************************************************************)
(* C3                                                                      *)
(***************************************************************************)
AllConsumersDemand == \A i \in Consumers : df_nodes[i].GRID0_kW.v > 0

\* C3: when every consumer has a positive demand, the edges built by an assignment
\* that satisfies power balance, capacity, exclusivity and the radiality count hold no
\* cycle; and any choice of edges with a cycle that joins every consumer to a
\* substation has more than n - s edges.
C3_NoCycleUnderFullDemand ==
    /\ (FlowsAssigned /\ AllConsumersDemand)
          => ~HasCycle(m.set_nodes, BuiltEdges(m, sol.var_x))
    /\ pc = "done"
          => \A x \in [m.var_x -> {0, 1}] :
                LET built == BuiltEdges(m, x)
                IN (/\ \A e \in m.set_edge : one_linetype_rule(m, [NoSolution EXCEPT !.var_x = x], e[1], e[2])
                    /\ HasCycle(m.set_nodes, built)
                    /\ \A c \in m.set_nodes_consum : Reach(built, {c}) \cap m.set_nodes_sub /= {})
                   => Cardinality(built) > NodeCount - SubCount

\* four nodes, one substation, three consumers with demand, a tree of three edges
C3_Witness ==
    /\ pc = "solved"
    /\ NodeCount = 4
    /\ SubCount = 1
    /\ AllConsumersDemand
    /\ Cardinality(BuiltEdges(m, sol.var_x)) = 3
    /\ Cardinality(Components(m.set_nodes, BuiltEdges(m, sol.var_x))) = 1

(***************************************************************************)
(* C4                                                                      *)
(***************************************************************************)
\* C4: costs[om] = costs[investment] * om_factor of cable type 0, with
\* costs[investment] = sum of 2 * x * length * price * annuity, whichever types are built.
C4_OmIsInvestmentTimesFactor0 ==
    pc = "solved"
        => /\ sol.var_costs["om"] * 10^2
                = sol.var_costs["investment"] * dict_line_tech[0].om_factor
           /\ sol.var_costs["investment"]
                = Sum([k \in m.var_x |->
                        2 * sol.var_x[k] * dict_length[k[1]][k[2]]
                          * dict_line_tech[k[3]].price_sgd_per_m
                          * dict_line_tech[k[3]].annuity_factor.num * 10^2], m.var_x)

\* an edge is built with cable type 1, whose om_factor differs from that of type 0
C4_Witness ==
    /\ pc = "solved"
    /\ \E k \in m.var_x : k[3] = 1 /\ sol.var_x[k] = 1
    /\ dict_line_tech[1].om_factor /= dict_line_tech[0].om_factor
    /\ sol.var_costs["om"] > 0

(***************************************************************************)
(* C8                                                                      *)
(***************************************************************************)
\* C8: x[i,j,t] = 0 implies a flow of exactly 0 on (i,j,t), so at most one type of an
\* edge carries flow and an unbuilt edge carries none; x[i,j,t] = 1 implies a slack of
\* 0, so the flow of a built edge equals the angle-difference expression.
C8_FlowOnlyOnBuiltEdges ==
    /\ FlowsAssigned
          => /\ \A k \in m.var_x : sol.var_x[k] = 0 => sol.var_power_over_line[k] = 0
             /\ \A e \in m.set_edge :
                   /\ Cardinality({t \in m.set_linetypes :
                                     sol.var_power_over_line[<<e[1], e[2], t>>] /= 0}) <= 1
                   /\ e \notin BuiltEdges(m, sol.var_x)
                         => \A t \in m.set_linetypes :
                               sol.var_power_over_line[<<e[1], e[2], t>>] = 0
    /\ AnglesAssigned
          => \A k \in m.var_x : sol.var_x[k] = 1
                => /\ sol.var_slack[k] = 0
                   /\ sol.var_power_over_line[k] * Reactance(m, k)
                         = (sol.var_theta[k[1]] - sol.var_theta[k[2]]) * 10^4

\* two cable types: an edge built with one type carries flow, its other type none, and
\* an unbuilt edge has a slack different from 0
C8_Witness ==
    /\ pc = "solved"
    /\ \E k \in m.var_x : \E t \in m.set_linetypes \ {k[3]} :
          /\ sol.var_x[k] = 1
          /\ sol.var_power_over_line[k] /= 0
          /\ sol.var_x[<<k[1], k[2], t>>] = 0
    /\ \E k \in m.var_x : sol.var_x[k] = 0 /\ sol.var_slack[k] /= 0

(***************************************************************************)
(* C9                                                                      *)
(***************************************************************************)
\* every constraint of the model holds for the assignment s
AllConstraintsHold(mm, s) ==
    /\ \A i \in mm.power_balance_rule_constraint : power_balance_rule(mm, s, i)
    /\ \A k \in mm.power_over_line_constraint : power_over_line_rule(mm, s, k)
    /\ \A i \in mm.slack_voltage_angle_constraint : slack_voltage_angle_rule(mm, s, i)
    /\ \A k \in mm.slack_neg_constraint : slack_neg_rule(mm, s, k)
    /\ \A k \in mm.slack_pos_constraint : slack_pos_rule(mm, s, k)
    /\ \A k \in mm.power_over_line_rule_neg_constraint : power_over_line_rule_neg_rule(mm, s, k)
    /\ \A k \in mm.power_over_line_rule_pos_constraint : power_over_line_rule_pos_rule(mm, s, k)
    /\ \A u \in mm.radial_constraint : radial_rule(mm, s)
    /\ \A e \in mm.one_linetype : one_linetype_rule(mm, s, e[1], e[2])
    /\ \A c \in mm.def_costs : s.var_costs[c] = cost_rule(mm, s, c)

\* C9: the constraints do not guarantee a radial network.  Every solved assignment
\* satisfies every constraint, the count sum x = n - s included, and where its built
\* edges hold a cycle some consumer of demand 0 is joined to no substation; such an
\* assignment, with a cycle and a node without any built edge, exists (C9_Witness).
C9_CycleNeedsIdleConsumer ==
    pc = "solved"
        => /\ AllConstraintsHold(m, sol)
           /\ Sum(sol.var_x, m.var_x) = NodeCount - SubCount
           /\ HasCycle(m.set_nodes, BuiltEdges(m, sol.var_x))
                 => \E c \in Consumers :
                       /\ df_nodes[c].GRID0_kW.v = 0
                       /\ Reach(BuiltEdges(m, sol.var_x), {c}) \cap Substations = {}

\* a substation, a consumer of demand 0, a cycle of built edges and a node without any
\* built edge, in an assignment that satisfies every constraint
C9_Witness ==
    /\ pc = "solved"
    /\ AllConstraintsHold(m, sol)
    /\ Substations /= {}
    /\ \E c \in Consumers : df_nodes[c].GRID0_kW.v = 0
    /\ HasCycle(m.set_nodes, BuiltEdges(m, sol.var_x))
    /\ \E i \in m.set_nodes : \A e \in BuiltEdges(m, sol.var_x) : e[1] /= i /\ e[2] /= i

====
